---- MODULE Spec2Model ----
(***************************************************************************)
(* Model of the VIN risk analyzer: the record store (DataLoader), the      *)
(* scoring engine (RiskEngine), the text generator wrapper (LLMService),   *)
(* the orchestrator (VinAnalyzer) and the HTTP routes in front of it.      *)
(*                                                                         *)
(* Representation.  A Python str is a sequence of one-character strings    *)
(* when the code looks inside it (identifiers, makes, models) and a        *)
(* sequence of string tokens when the code only builds it (summary and     *)
(* reasoning texts); the empty str is the empty sequence.  The float       *)
(* price_to_market_percent is kept in tenths of a percent (PctScale), so   *)
(* 95.5 is 955.  current_price is kept in whole currency units.            *)
(***************************************************************************)
EXTENDS Integers, Sequences, FiniteSets, TLC

VARIABLES
    phase,          \* "loading": DataLoader._load_data is reading rows;
                    \* "ready": the analyzer is constructed and installed
    pending,        \* rows of the CSV file _load_data has not read yet
    vehicles,       \* DataLoader.vehicles: identifier -> VehicleData
    order,          \* insertion order of the keys of DataLoader.vehicles
    use_llm,        \* RiskEngine.use_llm
    llm_service,    \* RiskEngine.llm_service: "None" or "LLMService"
    current_year,   \* datetime.now().year
    arg,            \* what the caller passes: a record (to the engine) or an
                    \* identifier (to the analyzer and the routes)
    remote,         \* what the remote model answers when it is asked
    last,           \* the most recent call: its input and what it returned
    earlier         \* an analyze_vin call made before, kept for comparison

vars == <<phase, pending, vehicles, order, use_llm, llm_service,
          current_year, arg, remote, last, earlier>>

-----------------------------------------------------------------------------
(* Characters and strings                                                  *)

LowerChars == <<"a","b","c","d","e","f","g","h","i","j","k","l","m",
                "n","o","p","q","r","s","t","u","v","w","x","y","z">>

UpperChars == <<"A","B","C","D","E","F","G","H","I","J","K","L","M",
                "N","O","P","Q","R","S","T","U","V","W","X","Y","Z">>

WhitespaceChars == {" ", "\t"}

\* the characters of the model, in code point order
CodePointOrder ==
    <<"\t"," ","$","%","+",",","-",".","0","1","2","3","4","5","6","7","8","9","A","B","C","D","E","F"
     ,"G","H","I","J","K","L","M","N","O","P","Q","R","S","T","U","V","W","X","Y","Z","a","b","c","d","e","f","g","h","i","j","k","l","m"
     ,"n","o","p","q","r","s","t","u","v","w","x","y","z">>

Chars == {CodePointOrder[i] : i \in DOMAIN CodePointOrder}

UpperOf ==
    [c \in Chars |->
        IF \E i \in DOMAIN LowerChars : LowerChars[i] = c
        THEN UpperChars[CHOOSE i \in DOMAIN LowerChars : LowerChars[i] = c]
        ELSE c]

LowerOf ==
    [c \in Chars |->
        IF \E i \in DOMAIN UpperChars : UpperChars[i] = c
        THEN LowerChars[CHOOSE i \in DOMAIN UpperChars : UpperChars[i] = c]
        ELSE c]

CodePointOf ==
    [c \in Chars |-> CHOOSE i \in DOMAIN CodePointOrder : CodePointOrder[i] = c]

UpperChar(c) == UpperOf[c]

LowerChar(c) == LowerOf[c]

IsAlpha(c) == UpperOf[c] # LowerOf[c]

\* str.upper()
Upper(s) == [i \in DOMAIN s |-> UpperChar(s[i])]

\* str.strip(): drop leading and trailing whitespace
RECURSIVE LStrip(_)
LStrip(s) ==
    IF s # <<>> /\ Head(s) \in WhitespaceChars THEN LStrip(Tail(s)) ELSE s

RECURSIVE RStrip(_)
RStrip(s) ==
    IF s # <<>> /\ s[Len(s)] \in WhitespaceChars
    THEN RStrip(SubSeq(s, 1, Len(s) - 1))
    ELSE s

Strip(s) == RStrip(LStrip(s))

\* str.title(): a letter that follows a non-letter is upper-cased, every
\* other letter is lower-cased
Title(s) ==
    [i \in DOMAIN s |->
        IF i = 1 \/ ~IsAlpha(s[i - 1]) THEN UpperChar(s[i]) ELSE LowerChar(s[i])]

-----------------------------------------------------------------------------
(* Number formatting used by the f-strings                                 *)

\* format(n, "+d"): always signed
FmtSigned(n) == IF n < 0 THEN <<"-", ToString(-n)>> ELSE <<"+", ToString(n)>>

Pad3(n) ==
    IF n < 10 THEN <<"00", ToString(n)>>
    ELSE IF n < 100 THEN <<"0", ToString(n)>>
    ELSE <<ToString(n)>>

RECURSIVE FmtGroups(_)
FmtGroups(n) ==
    IF n < 1000 THEN <<ToString(n)>>
    ELSE FmtGroups(n \div 1000) \o <<",">> \o Pad3(n % 1000)

\* format(n, ","): thousands separators
FmtThousands(n) == IF n < 0 THEN <<"-">> \o FmtGroups(-n) ELSE FmtGroups(n)

PctScale == 10

\* str(float) of a percentage held in tenths: 955 -> "95.5", 950 -> "95.0"
FmtPercent(p) == <<ToString(p \div PctScale), ".", ToString(p % PctScale)>>

-----------------------------------------------------------------------------
(* RiskEngine: impact functions                                            *)

BASELINE_SCORE == 5
MIN_SCORE == 1
MAX_SCORE == 10
AVERAGE_MILES_PER_YEAR == 12000

Max2(a, b) == IF a >= b THEN a ELSE b
Min2(a, b) == IF a <= b THEN a ELSE b

\* the lower threshold taken inclusively
calculate_days_on_lot_impact_inclusive(days_on_lot) ==
    IF days_on_lot <= 15 THEN -2
    ELSE IF days_on_lot <= 45 THEN 0
    ELSE 2

calculate_days_on_lot_impact(days_on_lot) ==
    IF days_on_lot < 15 THEN -2
    ELSE IF days_on_lot <= 45 THEN 0
    ELSE 2

calculate_price_to_market_impact(price_to_market_percent) ==
    IF price_to_market_percent <= 95 * PctScale THEN -2
    ELSE IF 96 * PctScale <= price_to_market_percent
            /\ price_to_market_percent <= 105 * PctScale THEN 0
    ELSE 2

\* 200 views counted as high
calculate_vdp_views_impact_inclusive(vdp_views) ==
    IF vdp_views >= 200 THEN -1
    ELSE IF 50 <= vdp_views /\ vdp_views <= 200 THEN 0
    ELSE 1

calculate_vdp_views_impact(vdp_views) ==
    IF vdp_views > 200 THEN -1
    ELSE IF 50 <= vdp_views /\ vdp_views <= 200 THEN 0
    ELSE 1

\* expected_mileage * 0.8 and * 1.2 are compared exactly: for the ages the
\* valid model years allow, 12000 * age * 0.8 and * 1.2 are exact in binary
\* floating point, so the comparison is the one of the tenfold integers.
\* the formula applied to a vehicle without mileage as to any other
calculate_mileage_impact_no_sentinel(vehicle, year_now) ==
    LET vehicle_age == year_now - vehicle.year
        expected_mileage == AVERAGE_MILES_PER_YEAR * vehicle_age
    IN  IF 10 * vehicle.mileage < expected_mileage * 8 THEN -1
        ELSE IF 10 * vehicle.mileage <= expected_mileage * 12 THEN 0
        ELSE 1

\* a vehicle taken to be one year old at least
calculate_mileage_impact_aged(vehicle, year_now) ==
    LET vehicle_age == Max2(1, year_now - vehicle.year)
        expected_mileage == AVERAGE_MILES_PER_YEAR * vehicle_age
    IN  IF vehicle.mileage = 0 THEN -1
        ELSE IF 10 * vehicle.mileage < expected_mileage * 8 THEN -1
        ELSE IF 10 * vehicle.mileage <= expected_mileage * 12 THEN 0
        ELSE 1

calculate_mileage_impact(vehicle, year_now) ==
    LET vehicle_age == year_now - vehicle.year
        expected_mileage == AVERAGE_MILES_PER_YEAR * vehicle_age
    IN  IF vehicle.mileage = 0 THEN -1
        ELSE IF 10 * vehicle.mileage < expected_mileage * 8 THEN -1
        ELSE IF 10 * vehicle.mileage <= expected_mileage * 12 THEN 0
        ELSE 1

calculate_sales_opportunities_impact(sales_opportunities) ==
    IF sales_opportunities > 10 THEN -1
    ELSE IF sales_opportunities <= 2 THEN 1
    ELSE 0

\* the days-on-lot rules applied whether or not the percentage is there
handle_missing_data_adjustments_always(vehicle) ==
    LET a1 == IF vehicle.current_price = 0 THEN 1 ELSE 0
        a2 == IF vehicle.days_on_lot > 100 THEN 1
              ELSE IF vehicle.days_on_lot < 10 THEN -1
              ELSE 0
    IN  a1 + a2

handle_missing_data_adjustments(vehicle) ==
    LET a1 == IF vehicle.current_price = 0 THEN 1 ELSE 0
        a2 == IF vehicle.price_to_market_percent = 0
              THEN IF vehicle.days_on_lot > 100 THEN 1
                   ELSE IF vehicle.days_on_lot < 10 THEN -1
                   ELSE 0
              ELSE 0
    IN  a1 + a2

\* the clamp with its lower bound lost
ClampScoreUpperOnly(raw_score) == Min2(MAX_SCORE, raw_score)

ClampScore(raw_score) == Max2(MIN_SCORE, Min2(MAX_SCORE, raw_score))

calculate_risk_factors(vehicle, year_now) ==
    LET days_on_lot_impact == calculate_days_on_lot_impact(vehicle.days_on_lot)
        price_to_market_impact ==
            calculate_price_to_market_impact(vehicle.price_to_market_percent)
        vdp_views_impact == calculate_vdp_views_impact(vehicle.total_vdps)
        mileage_impact == calculate_mileage_impact(vehicle, year_now)
        sales_opportunities_impact ==
            calculate_sales_opportunities_impact(vehicle.sales_opportunities)
        missing_data_adjustment == handle_missing_data_adjustments(vehicle)
        total_adjustments ==
            days_on_lot_impact + price_to_market_impact + vdp_views_impact
            + mileage_impact + sales_opportunities_impact
            + missing_data_adjustment
        raw_score == BASELINE_SCORE + total_adjustments
    IN  [days_on_lot_impact |-> days_on_lot_impact,
         price_to_market_impact |-> price_to_market_impact,
         vdp_views_impact |-> vdp_views_impact,
         mileage_impact |-> mileage_impact,
         sales_opportunities_impact |-> sales_opportunities_impact,
         baseline_score |-> BASELINE_SCORE,
         total_adjustments |-> total_adjustments,
         final_score |-> ClampScore(raw_score)]

-----------------------------------------------------------------------------
(* RiskEngine: algorithmic text generation                                 *)

summary_price_desc(vehicle) ==
    IF vehicle.current_price > 0
    THEN IF vehicle.price_to_market_percent > 105 * PctScale
         THEN "priced above market value"
         ELSE IF vehicle.price_to_market_percent < 95 * PctScale
         THEN "priced below market value"
         ELSE "competitively priced"
    ELSE "with pricing to be determined"

summary_engagement_desc(vehicle) ==
    IF vehicle.total_vdps > 200 THEN "strong online engagement"
    ELSE IF vehicle.total_vdps >= 50 THEN "moderate online interest"
    ELSE "limited online visibility"

summary_lot_desc(vehicle) ==
    IF vehicle.days_on_lot < 15 THEN "recently listed"
    ELSE IF vehicle.days_on_lot <= 45 THEN "with normal inventory time"
    ELSE "with extended time on lot"

summary_risk_level(risk_factors) ==
    IF risk_factors.final_score <= 3 THEN "low risk investment"
    ELSE IF risk_factors.final_score <= 6 THEN "moderate market position"
    ELSE "requiring attention"

generate_summary(vehicle, risk_factors) ==
    <<"This ", ToString(vehicle.year), " ">> \o Title(vehicle.make) \o <<" ">>
    \o Title(vehicle.model)
    \o <<" is ", summary_price_desc(vehicle), " and shows ",
         summary_engagement_desc(vehicle), ", ", summary_lot_desc(vehicle),
         ", indicating a ", summary_risk_level(risk_factors), ".">>

reasoning_days_on_lot(vehicle, risk_factors) ==
    IF vehicle.days_on_lot < 15
    THEN <<"Days on lot (", ToString(vehicle.days_on_lot), ") is low (">>
         \o FmtSigned(risk_factors.days_on_lot_impact) \o <<")">>
    ELSE IF vehicle.days_on_lot <= 45
    THEN <<"Days on lot (", ToString(vehicle.days_on_lot), ") is normal (", "0", ")">>
    ELSE <<"Days on lot (", ToString(vehicle.days_on_lot), ") is high (">>
         \o FmtSigned(risk_factors.days_on_lot_impact) \o <<")">>

reasoning_price_to_market(vehicle, risk_factors) ==
    IF vehicle.price_to_market_percent > 0
    THEN IF vehicle.price_to_market_percent <= 95 * PctScale
         THEN <<"Price is ">> \o FmtPercent(vehicle.price_to_market_percent)
              \o <<"% of market (">>
              \o FmtSigned(risk_factors.price_to_market_impact) \o <<")">>
         ELSE IF vehicle.price_to_market_percent <= 105 * PctScale
         THEN <<"Price is ">> \o FmtPercent(vehicle.price_to_market_percent)
              \o <<"% of market (", "0", ")">>
         ELSE <<"Price is ">> \o FmtPercent(vehicle.price_to_market_percent)
              \o <<"% of market (">>
              \o FmtSigned(risk_factors.price_to_market_impact) \o <<")">>
    ELSE <<"Price to market data unavailable">>

reasoning_vdp_views(vehicle, risk_factors) ==
    IF vehicle.total_vdps > 200
    THEN <<"VDP views (">> \o FmtThousands(vehicle.total_vdps) \o <<") are high (">>
         \o FmtSigned(risk_factors.vdp_views_impact) \o <<")">>
    ELSE IF vehicle.total_vdps >= 50
    THEN <<"VDP views (">> \o FmtThousands(vehicle.total_vdps)
         \o <<") are moderate (", "0", ")">>
    ELSE <<"VDP views (">> \o FmtThousands(vehicle.total_vdps) \o <<") are low (">>
         \o FmtSigned(risk_factors.vdp_views_impact) \o <<")">>

reasoning_mileage(vehicle, risk_factors, year_now) ==
    LET vehicle_age == year_now - vehicle.year
        expected_mileage == AVERAGE_MILES_PER_YEAR * vehicle_age
    IN  IF vehicle.mileage = 0
        THEN <<"New vehicle with 0 miles (">>
             \o FmtSigned(risk_factors.mileage_impact) \o <<")">>
        ELSE <<"Mileage (">> \o FmtThousands(vehicle.mileage)
             \o <<") vs expected (">> \o FmtThousands(expected_mileage)
             \o <<") for age (">> \o FmtSigned(risk_factors.mileage_impact)
             \o <<")">>

reasoning_sales_opportunities(vehicle, risk_factors) ==
    IF vehicle.sales_opportunities > 10
    THEN <<"Sales opportunities (", ToString(vehicle.sales_opportunities),
           ") are high (">>
         \o FmtSigned(risk_factors.sales_opportunities_impact) \o <<")">>
    ELSE IF vehicle.sales_opportunities <= 2
    THEN <<"Sales opportunities (", ToString(vehicle.sales_opportunities),
           ") are low (">>
         \o FmtSigned(risk_factors.sales_opportunities_impact) \o <<")">>
    ELSE <<"Sales opportunities (", ToString(vehicle.sales_opportunities),
           ") are moderate (", "0", ")">>

\* reasoning_parts, in the order the code appends them
reasoning_parts(vehicle, risk_factors, year_now) ==
    <<reasoning_days_on_lot(vehicle, risk_factors),
      reasoning_price_to_market(vehicle, risk_factors),
      reasoning_vdp_views(vehicle, risk_factors),
      reasoning_mileage(vehicle, risk_factors, year_now),
      reasoning_sales_opportunities(vehicle, risk_factors)>>

reasoning_final_part(risk_factors) ==
    <<"Overall score = ", ToString(risk_factors.baseline_score), " baseline ">>
    \o FmtSigned(risk_factors.total_adjustments)
    \o <<" adjustments = ", ToString(risk_factors.final_score)>>

\* sep.join(parts)
RECURSIVE Join(_, _)
Join(parts, sep) ==
    IF parts = <<>> THEN <<>>
    ELSE IF Len(parts) = 1 THEN parts[1]
    ELSE parts[1] \o <<sep>> \o Join(Tail(parts), sep)

generate_reasoning(vehicle, risk_factors, year_now) ==
    Join(reasoning_parts(vehicle, risk_factors, year_now), ". ")
    \o <<". ">> \o reasoning_final_part(risk_factors) \o <<".">>

-----------------------------------------------------------------------------
(* JSON values and the replies of the remote model                         *)
(*                                                                         *)
(* A JSON value is [t, s, n]: t is its type ("str", "int", "null"), s the  *)
(* text of a string, n the number of an int.  A JSON object is a function  *)
(* from the keys it holds to JSON values.  A reply of the remote model is  *)
(* [kind, obj]:                                                            *)
(*   "api_error"   client.messages.create raised                           *)
(*   "json"        the content is a JSON object, obj                       *)
(*   "non_object"  the content is JSON, but a list / number / string       *)
(*   "wrapped"     the content is text around a JSON object, obj           *)
(*   "bad_braces"  the content is text with braces that hold no JSON       *)
(*   "garbage"     the content is text without braces                      *)

JStr(tokens) == [t |-> "str", s |-> tokens, n |-> 0]
JInt(k) == [t |-> "int", s |-> <<>>, n |-> k]
JNull == [t |-> "null", s |-> <<>>, n |-> 0]

RequiredKeys == {"summary", "risk_score", "reasoning"}

NoObject == [k \in {} |-> JNull]

\* the generator is not asked
NoReply == [kind |-> "not_asked", obj |-> NoObject]

-----------------------------------------------------------------------------
(* LLMService                                                              *)

fallback_risk_level(risk_factors) ==
    IF risk_factors.final_score <= 3 THEN "low-risk investment"
    ELSE IF risk_factors.final_score <= 6 THEN "moderate market position"
    ELSE "requiring attention"

fallback_reasoning_parts(vehicle, risk_factors) ==
    (IF risk_factors.days_on_lot_impact # 0
     THEN << <<"Days on lot (", ToString(vehicle.days_on_lot), ") ",
               IF risk_factors.days_on_lot_impact < 0 THEN "reduces" ELSE "increases",
               " risk">> >>
     ELSE <<>>)
    \o
    (IF risk_factors.price_to_market_impact # 0
     THEN << <<"Pricing at ">> \o FmtPercent(vehicle.price_to_market_percent)
             \o <<"% of market ",
                  IF risk_factors.price_to_market_impact < 0 THEN "helps" ELSE "hurts",
                  " appeal">> >>
     ELSE <<>>)

generate_fallback_assessment(vehicle, risk_factors) ==
    LET summary ==
            <<"This ", ToString(vehicle.year), " ">> \o Title(vehicle.make)
            \o <<" ">> \o Title(vehicle.model)
            \o <<" represents a ", fallback_risk_level(risk_factors),
                 " based on current market metrics and pricing.">>
        reasoning ==
            <<"Risk assessment based on: ">>
            \o Join(fallback_reasoning_parts(vehicle, risk_factors), ", ")
            \o <<". Final score: ", ToString(risk_factors.final_score), "/10.">>
    IN  [k \in RequiredKeys |->
            IF k = "summary" THEN JStr(summary)
            ELSE IF k = "risk_score" THEN JInt(risk_factors.final_score)
            ELSE JStr(reasoning)]

\* int(x) succeeds
IntConvertible(j) == j.t = "int"

\* the score passed through as the model gave it
BoundRiskScoreUnbounded(k) == k

\* max(1, min(10, int(x)))
BoundRiskScore(k) == Max2(1, Min2(10, k))

WithBoundedScore(obj) ==
    [k \in DOMAIN obj |->
        IF k = "risk_score" THEN JInt(BoundRiskScore(obj[k].n)) ELSE obj[k]]

\* the mapping generate_risk_assessment returns for a reply of the model;
\* every exception inside the outer try ends in the fallback assessment
generate_risk_assessment(reply, vehicle, risk_factors) ==
    IF reply.kind = "json"
    THEN IF RequiredKeys \subseteq DOMAIN reply.obj
            /\ IntConvertible(reply.obj["risk_score"])
         THEN WithBoundedScore(reply.obj)
         ELSE generate_fallback_assessment(vehicle, risk_factors)
    ELSE IF reply.kind = "wrapped"
    THEN IF "risk_score" \in DOMAIN reply.obj
            /\ IntConvertible(reply.obj["risk_score"])
         THEN WithBoundedScore(reply.obj)
         ELSE generate_fallback_assessment(vehicle, risk_factors)
    ELSE generate_fallback_assessment(vehicle, risk_factors)

-----------------------------------------------------------------------------
(* RiskAssessment and RiskEngine.assess_risk                               *)

\* RiskAssessment(summary=d["summary"], risk_score=d["risk_score"],
\* reasoning=d["reasoning"]) raises nothing: every key is there, the texts
\* are str and the score is an int within ge=1, le=10
RiskAssessmentAccepts(d) ==
    /\ RequiredKeys \subseteq DOMAIN d
    /\ d["summary"].t = "str"
    /\ d["reasoning"].t = "str"
    /\ d["risk_score"].t = "int"
    /\ d["risk_score"].n >= 1
    /\ d["risk_score"].n <= 10

RiskAssessment(summary, risk_score, reasoning) ==
    [summary |-> summary, risk_score |-> risk_score, reasoning |-> reasoning]

algorithmic_assessment(vehicle, risk_factors, year_now) ==
    RiskAssessment(generate_summary(vehicle, risk_factors),
                   risk_factors.final_score,
                   generate_reasoning(vehicle, risk_factors, year_now))

\* engine_use_llm, engine_llm_service: the engine's fields; reply: what the
\* remote model answers if it is asked
assess_risk(vehicle, reply, engine_use_llm, engine_llm_service, year_now) ==
    LET risk_factors == calculate_risk_factors(vehicle, year_now)
        llm_output == generate_risk_assessment(reply, vehicle, risk_factors)
    IN  IF engine_use_llm /\ engine_llm_service # "None"
           /\ RiskAssessmentAccepts(llm_output)
        THEN RiskAssessment(llm_output["summary"].s,
                            llm_output["risk_score"].n,
                            llm_output["reasoning"].s)
        ELSE algorithmic_assessment(vehicle, risk_factors, year_now)

-----------------------------------------------------------------------------
(* Inputs of the engine                                                    *)

VinA == <<"1","H","G","C","M","8","2","6","3","3","A","1","2","3","4","5","6">>
MakeHonda == <<"H","O","N","D","A">>
ModelAccord == <<"A","C","C","O","R","D">>

VehicleData(vin, year, make, model, current_price, price_to_market_percent, days_on_lot, mileage, total_vdps, sales_opportunities) ==
    [vin |-> vin, year |-> year, make |-> make, model |-> model,
     current_price |-> current_price,
     price_to_market_percent |-> price_to_market_percent,
     days_on_lot |-> days_on_lot, mileage |-> mileage,
     total_vdps |-> total_vdps, sales_opportunities |-> sales_opportunities]

\* the wall-clock years of an evaluation
FirstYear == 2025
MaxYearAdvance == 1
LastYear == FirstYear + MaxYearAdvance

\* the records of the scoring sweep: every threshold of every factor, from
\* both sides, in every combination
ScoreDays == {9, 10, 14, 15, 45, 46, 100, 101}
ScorePercents == {0, 950, 955, 960, 1050, 1051}
ScoreViews == {49, 50, 200, 201}
ScoreOpportunities == {2, 3, 10, 11}
ScorePrices == {0, 25000}
ScoreYears == {2018, 2025, 2030}
ScoreMileages == {0, 1, 67199, 67200, 100800, 100801}

\* the first row of the sample data: a 2018 Honda Accord
SampleVehicle ==
    VehicleData(VinA, 2018, MakeHonda, ModelAccord, 25000, 95 * PctScale, 25,
                50000, 150, 5)

ScoreVehicles ==
    {VehicleData(VinA, y, MakeHonda, ModelAccord, p, pct, d, m, v, o) :
        y \in ScoreYears, p \in ScorePrices, pct \in ScorePercents,
        d \in ScoreDays, m \in ScoreMileages, v \in ScoreViews,
        o \in ScoreOpportunities}
    \cup {SampleVehicle}

NoVehicles == [k \in {} |-> 0]
NoCall == [op |-> "none"]

\* a RiskEngine built without the text generator, one record to score
InitScore ==
    /\ phase = "engine"
    /\ pending = <<>>
    /\ vehicles = NoVehicles
    /\ order = <<>>
    /\ use_llm = FALSE
    /\ llm_service = "None"
    /\ current_year = FirstYear
    /\ arg \in ScoreVehicles
    /\ remote = NoReply
    /\ last = NoCall
    /\ earlier = <<>>

\* the wall clock passes a new year
NewYear ==
    /\ current_year < LastYear
    /\ current_year' = current_year + 1
    /\ UNCHANGED <<phase, pending, vehicles, order, use_llm, llm_service, arg, earlier,
                   remote, last>>

\* engine.calculate_risk_factors(arg)
CalculateRiskFactors ==
    /\ phase = "engine"
    /\ last' = [op |-> "calculate_risk_factors",
                vehicle |-> arg,
                year |-> current_year,
                factors |-> calculate_risk_factors(arg, current_year)]
    /\ UNCHANGED <<phase, pending, vehicles, order, use_llm, llm_service,
                   current_year, arg, earlier, remote>>

NextScore == CalculateRiskFactors \/ NewYear

SpecScore == InitScore /\ [][NextScore]_vars

-----------------------------------------------------------------------------
(* The engine with its text generator                                      *)

\* RiskEngine.__init__(use_llm, anthropic_api_key).  key_available: a key is
\* passed or ANTHROPIC_API_KEY is set; without one LLMService.__init__ raises
\* ValueError and the engine turns the generator off
\* the flag left as requested when LLMService.__init__ raises
risk_engine_init_flag_kept(use_llm_arg, key_available) ==
    IF use_llm_arg
    THEN IF key_available
         THEN [use_llm |-> TRUE, llm_service |-> "LLMService"]
         ELSE [use_llm |-> TRUE, llm_service |-> "None"]
    ELSE [use_llm |-> FALSE, llm_service |-> "None"]

risk_engine_init(use_llm_arg, key_available) ==
    IF use_llm_arg
    THEN IF key_available
         THEN [use_llm |-> TRUE, llm_service |-> "LLMService"]
         ELSE [use_llm |-> FALSE, llm_service |-> "None"]
    ELSE [use_llm |-> FALSE, llm_service |-> "None"]

\* what the remote model may answer
ReplyScores == {-3, 0, 1, 4, 10, 11, 15}
ReplySummaries == {JStr(<<>>), JStr(<<"Test summary">>), JNull}
ReplyScoreValues == {JInt(k) : k \in ReplyScores} \cup {JStr(<<"high">>), JNull}
ReplyReasonings == {JStr(<<>>), JStr(<<"Test reasoning">>), JNull}

ReplyObjects ==
    UNION {
        {[k \in K |-> IF k = "summary" THEN a
                      ELSE IF k = "risk_score" THEN b ELSE c] :
            a \in ReplySummaries, b \in ReplyScoreValues, c \in ReplyReasonings} :
        K \in SUBSET RequiredKeys}

Replies ==
    {[kind |-> k, obj |-> o] : k \in {"json", "wrapped"}, o \in ReplyObjects}
    \cup {[kind |-> k, obj |-> NoObject] :
            k \in {"api_error", "non_object", "bad_braces", "garbage"}}

LlmAsked(engine_use_llm, engine_llm_service) ==
    engine_use_llm /\ engine_llm_service # "None"

\* the records handed to assess_risk
EngineDays == {5, 25, 60}
EnginePercents == {0, 900, 950, 955, 1000, 1100}
EnginePrices == {0, 25000}
EngineInterest == {<<30, 1>>, <<250, 15>>}
EngineAges == {<<2018, 50000>>, <<2025, 0>>}

EngineVehicles ==
    {VehicleData(VinA, a[1], MakeHonda, ModelAccord, p, pct, d, a[2], i[1], i[2]) :
        a \in EngineAges, p \in EnginePrices, pct \in EnginePercents,
        d \in EngineDays, i \in EngineInterest}

\* no RiskEngine yet, one record to assess
InitEngine ==
    /\ phase = "new"
    /\ pending = <<>>
    /\ vehicles = NoVehicles
    /\ order = <<>>
    /\ use_llm = FALSE
    /\ llm_service = "None"
    /\ current_year = FirstYear
    /\ arg \in EngineVehicles
    /\ remote \in Replies
    /\ last = NoCall
    /\ earlier = <<>>

\* RiskEngine(use_llm=..., anthropic_api_key=...)
RiskEngineInit(use_llm_arg, key_available) ==
    /\ phase = "new"
    /\ phase' = "engine"
    /\ use_llm' = risk_engine_init(use_llm_arg, key_available).use_llm
    /\ llm_service' = risk_engine_init(use_llm_arg, key_available).llm_service
    /\ last' = [op |-> "RiskEngine", use_llm |-> use_llm_arg,
                key_available |-> key_available]
    /\ UNCHANGED <<pending, vehicles, order, current_year, arg, earlier, remote>>

\* engine.assess_risk(arg)
AssessRisk ==
    /\ phase = "engine"
    /\ LET reply == IF LlmAsked(use_llm, llm_service) THEN remote ELSE NoReply
       IN last' = [op |-> "assess_risk",
                vehicle |-> arg,
                year |-> current_year,
                llm_asked |-> LlmAsked(use_llm, llm_service),
                reply |-> reply,
                factors |-> calculate_risk_factors(arg, current_year),
                assessment |-> assess_risk(arg, reply, use_llm, llm_service,
                                           current_year)]
    /\ UNCHANGED <<phase, pending, vehicles, order, use_llm, llm_service,
                   current_year, arg, earlier, remote>>

\* engine.llm_service.generate_risk_assessment(arg, risk_factors), called as
\* the tests of the service call it
GenerateRiskAssessment ==
    /\ phase = "engine"
    /\ llm_service # "None"
    /\ last' = [op |-> "generate_risk_assessment",
                vehicle |-> arg,
                year |-> current_year,
                reply |-> remote,
                factors |-> calculate_risk_factors(arg, current_year),
                ret |-> generate_risk_assessment(
                            remote, arg, calculate_risk_factors(arg, current_year))]
    /\ UNCHANGED <<phase, pending, vehicles, order, use_llm, llm_service,
                   current_year, arg, earlier, remote>>

NextEngine ==
    \/ \E u \in BOOLEAN, k \in BOOLEAN : RiskEngineInit(u, k)
    \/ AssessRisk
    \/ GenerateRiskAssessment
    \/ NewYear

SpecEngine == InitEngine /\ [][NextEngine]_vars

-----------------------------------------------------------------------------
(* DataLoader: cleaning the cells of a row                                 *)
(*                                                                         *)
(* A cell is a sequence of characters.  The digits of a cell are ASCII     *)
(* digits; a number is an optional sign and one or more digits, with one   *)
(* fractional digit at most in a percentage.                               *)

DigitChars == <<"0","1","2","3","4","5","6","7","8","9">>

IsDigit(c) == \E i \in DOMAIN DigitChars : DigitChars[i] = c

DigitValue(c) == (CHOOSE i \in DOMAIN DigitChars : DigitChars[i] = c) - 1

\* re.sub(r"[...]", "", s)
RECURSIVE RemoveChars(_, _)
RemoveChars(s, drop) ==
    IF s = <<>> THEN <<>>
    ELSE IF Head(s) \in drop THEN RemoveChars(Tail(s), drop)
    ELSE <<Head(s)>> \o RemoveChars(Tail(s), drop)

AllDigits(s) == s # <<>> /\ \A i \in DOMAIN s : IsDigit(s[i])

RECURSIVE DigitsValue(_)
DigitsValue(s) ==
    IF s = <<>> THEN 0
    ELSE 10 * DigitsValue(SubSeq(s, 1, Len(s) - 1)) + DigitValue(s[Len(s)])

Unsigned(s) == IF s # <<>> /\ Head(s) \in {"+", "-"} THEN Tail(s) ELSE s

Signed(s, n) == IF s # <<>> /\ Head(s) = "-" THEN -n ELSE n

\* int(s) and Decimal(s) of a whole number raise nothing
IsIntLiteral(s) == AllDigits(Unsigned(s))

IntLiteralValue(s) == Signed(s, DigitsValue(Unsigned(s)))

HasPoint(s) == \E i \in DOMAIN s : s[i] = "."

PointAt(s) == CHOOSE i \in DOMAIN s : s[i] = "."

\* float(s) raises nothing: digits, or digits "." digit
IsFloatLiteral(s) ==
    LET u == Unsigned(s)
    IN  IF HasPoint(u)
        THEN /\ AllDigits(SubSeq(u, 1, PointAt(u) - 1))
             /\ PointAt(u) = Len(u) - 1
             /\ IsDigit(u[Len(u)])
        ELSE AllDigits(u)

\* the float, in tenths
FloatLiteralValue(s) ==
    LET u == Unsigned(s)
    IN  IF HasPoint(u)
        THEN Signed(s, PctScale * DigitsValue(SubSeq(u, 1, PointAt(u) - 1))
                       + DigitValue(u[Len(u)]))
        ELSE Signed(s, PctScale * DigitsValue(u))

clean_price(price_str) ==
    IF price_str = <<>> \/ Strip(price_str) \in {<<"$","0">>, <<"0">>, <<"-">>, <<>>}
    THEN 0
    ELSE LET cleaned == RemoveChars(Strip(price_str), {"$", ","} \cup WhitespaceChars)
         IN  IF cleaned = <<>> \/ cleaned = <<"0">> THEN 0
             ELSE IF IsIntLiteral(cleaned) THEN IntLiteralValue(cleaned)
             ELSE 0

clean_percentage(percent_str) ==
    IF percent_str = <<>> \/ Strip(percent_str) \in {<<"-">>, <<>>, <<"0","%">>}
    THEN 0
    ELSE LET cleaned == RemoveChars(Strip(percent_str), {"%"})
         IN  IF cleaned = <<>> \/ cleaned = <<"0">> THEN 0
             ELSE IF IsFloatLiteral(Strip(cleaned))
             THEN FloatLiteralValue(Strip(cleaned))
             ELSE 0

clean_integer(int_str) ==
    IF int_str = <<>> \/ Strip(int_str) \in {<<"-">>, <<>>, <<"0">>}
    THEN 0
    ELSE LET cleaned == RemoveChars(Strip(int_str), {","} \cup WhitespaceChars)
         IN  IF cleaned = <<>> THEN 0
             ELSE IF IsIntLiteral(cleaned) THEN IntLiteralValue(cleaned)
             ELSE 0

-----------------------------------------------------------------------------
(* VehicleData validation and DataLoader._parse_row                        *)

VIN_LENGTH == 17
MIN_YEAR == 1980
MAX_YEAR == 2030

\* validators that also turn away a record without a price
VehicleDataAcceptsPriced(vin, year, current_price, days_on_lot, mileage) ==
    /\ vin # <<>>
    /\ Len(vin) = VIN_LENGTH
    /\ ~(year < MIN_YEAR \/ year > MAX_YEAR)
    /\ ~(current_price <= 0)
    /\ ~(days_on_lot < 0)
    /\ ~(mileage < 0)

\* the field validators of VehicleData raise nothing
VehicleDataAccepts(vin, year, current_price, days_on_lot, mileage) ==
    /\ vin # <<>>
    /\ Len(vin) = VIN_LENGTH
    /\ ~(year < MIN_YEAR \/ year > MAX_YEAR)
    /\ ~(current_price < 0)
    /\ ~(days_on_lot < 0)
    /\ ~(mileage < 0)

\* Optional values: None is <<>>, a value x is <<x>>
None == <<>>
Some(x) == <<x>>

\* a row is a record of cells, one per column of the CSV file
parse_row(row) ==
    LET vin == Strip(row.VIN)
        year == clean_integer(row.Year)
        make == Upper(Strip(row.Make))
        model == Upper(Strip(row.Model))
        current_price == clean_price(row.Price)
        price_to_market_percent == clean_percentage(row.PriceToMarket)
        days_on_lot == clean_integer(row.DOL)
        mileage == clean_integer(row.Mileage)
        total_vdps == clean_integer(row.VDPs)
        sales_opportunities == clean_integer(row.Opportunities)
    IN  IF vin = <<>> THEN None
        ELSE IF year = 0 THEN None
        ELSE IF make = <<>> \/ model = <<>> THEN None
        ELSE IF ~VehicleDataAccepts(vin, year, current_price, days_on_lot, mileage)
        THEN None
        ELSE Some(VehicleData(Upper(vin), year, make, model, current_price,
                              price_to_market_percent, days_on_lot, mileage,
                              total_vdps, sales_opportunities))

-----------------------------------------------------------------------------
(* DataLoader: the store and its queries                                   *)

\* self.vehicles.setdefault(key, vehicle): the first record of a key stays
DictPutFirstWins(d, key, value) ==
    [k \in DOMAIN d \cup {key} |-> IF k \in DOMAIN d THEN d[k] ELSE value]

\* self.vehicles[key] = vehicle
DictPut(d, key, value) ==
    [k \in DOMAIN d \cup {key} |-> IF k = key THEN value ELSE d[k]]

\* the keys of a dict keep the order of their first insertion
OrderPut(keys, key) ==
    IF \E i \in DOMAIN keys : keys[i] = key THEN keys ELSE Append(keys, key)

VehicleNotFound == [status |-> "VehicleNotFoundError", value |-> None]

Returned(x) == [status |-> "ok", value |-> Some(x)]

\* the key with its case kept
NormalizeVinCaseKept(vin) == Strip(vin)

\* the key a lookup uses
NormalizeVin(vin) == Upper(Strip(vin))

\* a lookup that answers an all-zero record for an identifier it does not hold
get_vehicle_by_vin_or_default(store, vin) ==
    IF NormalizeVin(vin) \notin DOMAIN store
    THEN Returned(VehicleData(NormalizeVin(vin), 0, <<>>, <<>>, 0, 0, 0, 0, 0, 0))
    ELSE Returned(store[NormalizeVin(vin)])

get_vehicle_by_vin(store, vin) ==
    IF NormalizeVin(vin) \notin DOMAIN store
    THEN VehicleNotFound
    ELSE Returned(store[NormalizeVin(vin)])

\* list(self.vehicles.values())
get_all_vehicles(store, keys) == [i \in DOMAIN keys |-> store[keys[i]]]

\* sum(q)
RECURSIVE SeqSum(_)
SeqSum(q) == IF q = <<>> THEN 0 ELSE Head(q) + SeqSum(Tail(q))

get_vehicles_by_make(store, keys, make) ==
    LET wanted == Upper(Strip(make))
        keep(v) == v.make = wanted
    IN  SelectSeq(get_all_vehicles(store, keys), keep)

get_vehicles_by_year(store, keys, year) ==
    LET keep(v) == v.year = year
    IN  SelectSeq(get_all_vehicles(store, keys), keep)

\* the average as the exact quotient num/den; 12000.0 * vehicle_age when no
\* record of that age has a mileage
calculate_average_mileage_for_age(store, keys, vehicle_age) ==
    LET keep(v) == (2025 - v.year) = vehicle_age /\ v.mileage > 0
        vehicles_of_age == SelectSeq(get_all_vehicles(store, keys), keep)
        mileages == [i \in DOMAIN vehicles_of_age |-> vehicles_of_age[i].mileage]
    IN  IF vehicles_of_age = <<>>
        THEN [num |-> 12000 * vehicle_age, den |-> 1]
        ELSE [num |-> SeqSum(mileages), den |-> Len(vehicles_of_age)]

get_vehicle_count(store) == Cardinality(DOMAIN store)

-----------------------------------------------------------------------------
(* VinAnalyzer                                                             *)

CodePoint(c) == CodePointOf[c]

\* a < b for two str
RECURSIVE StrLess(_, _)
StrLess(a, b) ==
    IF b = <<>> THEN FALSE
    ELSE IF a = <<>> THEN TRUE
    ELSE IF CodePoint(Head(a)) < CodePoint(Head(b)) THEN TRUE
    ELSE IF CodePoint(Head(a)) > CodePoint(Head(b)) THEN FALSE
    ELSE StrLess(Tail(a), Tail(b))

\* sorted(S) of a set of str
RECURSIVE Sorted(_)
Sorted(S) ==
    IF S = {} THEN <<>>
    ELSE LET least == CHOOSE x \in S : \A y \in S \ {x} : StrLess(x, y)
         IN  <<least>> \o Sorted(S \ {least})

\* list(S): the elements in some order the set gives, here the order the
\* records were stored in
RECURSIVE Deduplicated(_)
Deduplicated(q) ==
    IF q = <<>> THEN <<>>
    ELSE LET rest == Deduplicated(SubSeq(q, 1, Len(q) - 1))
             x == q[Len(q)]
         IN  IF \E i \in DOMAIN rest : rest[i] = x THEN rest ELSE Append(rest, x)

Range(q) == {q[i] : i \in DOMAIN q}

SeqMin(q) == CHOOSE x \in Range(q) : \A y \in Range(q) : x <= y
SeqMax(q) == CHOOSE x \in Range(q) : \A y \in Range(q) : x >= y

\* [x for x in q if x > 0]
RECURSIVE Positive(_)
Positive(q) ==
    IF q = <<>> THEN <<>>
    ELSE IF Head(q) > 0 THEN <<Head(q)>> \o Positive(Tail(q))
    ELSE Positive(Tail(q))

\* a / b of two numbers: the exact quotient num/den, or the error of b = 0
Quotient(a, b) ==
    IF b = 0 THEN [error |-> TRUE, num |-> 0, den |-> 0]
    ELSE [error |-> FALSE, num |-> a, den |-> b]

stats_makes(makes) == Sorted(Range(makes))

\* "avg" with the guard on an empty price list lost
stats_price_avg_unguarded(prices) == Some(Quotient(SeqSum(prices), Len(prices)))

stats_price_avg(prices) ==
    IF prices # <<>> THEN Some(Quotient(SeqSum(prices), Len(prices))) ELSE None

\* the prices of every record, priced or not
stats_prices_unfiltered(all) == [i \in DOMAIN all |-> all[i].current_price]

\* [float(v.current_price) for v in vehicles if v.current_price > 0]
stats_prices(all) == Positive([i \in DOMAIN all |-> all[i].current_price])

get_database_stats(store, keys) ==
    LET all == get_all_vehicles(store, keys)
        makes == [i \in DOMAIN all |-> all[i].make]
        years == [i \in DOMAIN all |-> all[i].year]
        prices == stats_prices(all)
        avg == stats_price_avg(prices)
    IN  IF all = <<>>
        THEN Returned([total_vehicles |-> 0, makes |-> <<>>,
                       year_range |-> None, price_range |-> None])
        ELSE IF avg # None /\ avg[1].error
        THEN [status |-> "ZeroDivisionError", value |-> None]
        ELSE Returned(
                [total_vehicles |-> Len(all),
                 makes |-> stats_makes(makes),
                 year_range |->
                     Some([min |-> IF years # <<>> THEN Some(SeqMin(years)) ELSE None,
                           max |-> IF years # <<>> THEN Some(SeqMax(years)) ELSE None]),
                 price_range |->
                     Some([min |-> IF prices # <<>> THEN Some(SeqMin(prices)) ELSE None,
                           max |-> IF prices # <<>> THEN Some(SeqMax(prices)) ELSE None,
                           avg |-> avg])])

\* analyze_vin: the lookup, then the engine; engine_invoked tells whether
\* assess_risk was called
analyze_vin(store, vin, reply, engine_use_llm, engine_llm_service, year_now) ==
    LET found == get_vehicle_by_vin(store, vin)
    IN  IF found.status # "ok"
        THEN [status |-> found.status, value |-> None, engine_invoked |-> FALSE]
        ELSE [status |-> "ok",
              value |-> Some(assess_risk(found.value[1], reply, engine_use_llm,
                                         engine_llm_service, year_now)),
              engine_invoked |-> TRUE]

get_vehicle_data(store, vin) == get_vehicle_by_vin(store, vin)

\* membership tested on the identifier as given
validate_vin_exists_as_given(store, vin) == Returned(vin \in DOMAIN store)

\* only VehicleNotFoundError is caught
validate_vin_exists(store, vin) ==
    LET found == get_vehicle_by_vin(store, vin)
    IN  IF found.status = "ok" THEN Returned(TRUE)
        ELSE IF found.status = "VehicleNotFoundError" THEN Returned(FALSE)
        ELSE [status |-> found.status, value |-> None]

-----------------------------------------------------------------------------
(* The HTTP routes                                                         *)

\* the request model with its length check lost
VinRequestAcceptsAnyLength(v) == v # <<>>

\* VinRequest.validate_vin raises nothing
VinRequestAccepts(v) == ~(v = <<>> \/ Len(Strip(v)) # VIN_LENGTH)

\* request.vin
VinRequestValue(v) == Upper(Strip(v))

HTTP_OK == 200
HTTP_NOT_FOUND == 404
HTTP_UNPROCESSABLE == 422
HTTP_ERROR == 500
HTTP_UNAVAILABLE == 503

\* POST /analyze.  installed: routes.analyzer is not None.  lookups counts
\* the calls of get_vehicle_by_vin the request made
route_analyze_vin(installed, store, raw, reply, engine_use_llm, engine_llm_service, year_now) ==
    IF ~VinRequestAccepts(raw)
    THEN [http |-> HTTP_UNPROCESSABLE, body |-> None, lookups |-> 0]
    ELSE IF ~installed
    THEN [http |-> HTTP_UNAVAILABLE, body |-> None, lookups |-> 0]
    ELSE LET r == analyze_vin(store, VinRequestValue(raw), reply, engine_use_llm,
                              engine_llm_service, year_now)
         IN  IF r.status = "ok"
             THEN [http |-> HTTP_OK, body |-> r.value, lookups |-> 1]
             ELSE IF r.status = "VehicleNotFoundError"
             THEN [http |-> HTTP_NOT_FOUND, body |-> None, lookups |-> 1]
             ELSE [http |-> HTTP_ERROR, body |-> None, lookups |-> 1]

\* POST /validate
route_validate_vin(installed, store, raw) ==
    IF ~VinRequestAccepts(raw)
    THEN [http |-> HTTP_UNPROCESSABLE, body |-> None, lookups |-> 0]
    ELSE IF ~installed
    THEN [http |-> HTTP_UNAVAILABLE, body |-> None, lookups |-> 0]
    ELSE LET r == validate_vin_exists(store, VinRequestValue(raw))
         IN  IF r.status = "ok"
             THEN [http |-> HTTP_OK,
                   body |-> Some([vin |-> VinRequestValue(raw), exists |-> r.value[1]]),
                   lookups |-> 1]
             ELSE [http |-> HTTP_ERROR, body |-> None, lookups |-> 1]

\* GET /stats
route_get_database_stats(installed, store, keys) ==
    IF ~installed
    THEN [http |-> HTTP_UNAVAILABLE, body |-> None, lookups |-> 0]
    ELSE LET r == get_database_stats(store, keys)
         IN  IF r.status = "ok"
             THEN [http |-> HTTP_OK, body |-> r.value, lookups |-> 0]
             ELSE [http |-> HTTP_ERROR, body |-> None, lookups |-> 0]

-----------------------------------------------------------------------------
(* The service: the CSV file, the clients' identifiers, the remote model   *)

VinB == <<"2","H","G","C","M","8","2","6","3","3","A","1","2","3","4","5","7">>
VinC == <<"3","H","G","C","M","8","2","6","3","3","A","1","2","3","4","5","8">>
VinUnknown == <<"9","H","G","C","M","8","2","6","3","3","A","9","9","9","9","9","9">>
VinShort == <<"1","H","G","C","M","8","2","6","3","3","A","1","2","3","4","5">>

\* a priced Honda
RowHonda ==
    [VIN |-> <<"1","H","G","C","M","8","2","6","3","3","A","1","2","3","4","5","6">>,
     Year |-> <<"2","0","1","8">>, Make |-> <<"H","o","n","d","a">>,
     Model |-> <<"A","c","c","o","r","d">>,
     Price |-> <<"$","2","5",",","0","0","0">>,
     PriceToMarket |-> <<"9","5","%">>, DOL |-> <<"2","5">>,
     Mileage |-> <<"5","0",",","0","0","0">>, VDPs |-> <<"1","5","0">>,
     Opportunities |-> <<"5">>]

\* an Acura without a price and without a price-to-market figure
RowAcura ==
    [VIN |-> <<"2","H","G","C","M","8","2","6","3","3","A","1","2","3","4","5","7">>,
     Year |-> <<"2","0","2","0">>, Make |-> <<"A","c","u","r","a">>,
     Model |-> <<"T","L","X">>,
     Price |-> <<"$","0">>,
     PriceToMarket |-> <<"-">>, DOL |-> <<"5">>,
     Mileage |-> <<"0">>, VDPs |-> <<"3","0">>,
     Opportunities |-> <<"1">>]

\* the Honda's identifier again, in lower case between blanks, other data
RowHondaAgain ==
    [VIN |-> <<" ","1","h","g","c","m","8","2","6","3","3","a","1","2","3","4","5","6"," ">>,
     Year |-> <<"2","0","1","9">>, Make |-> <<"H","O","N","D","A">>,
     Model |-> <<"C","i","v","i","c">>,
     Price |-> <<"$","3","1",",","5","0","0">>,
     PriceToMarket |-> <<"1","0","6",".","5","%">>, DOL |-> <<"1","2","0">>,
     Mileage |-> <<"9",",","0","0","0">>, VDPs |-> <<"1",",","2","5","0">>,
     Opportunities |-> <<"1","2">>]

\* a Toyota without a price
RowToyota ==
    [VIN |-> <<"3","H","G","C","M","8","2","6","3","3","A","1","2","3","4","5","8">>,
     Year |-> <<"2","0","2","5">>, Make |-> <<"t","o","y","o","t","a">>,
     Model |-> <<"c","a","m","r","y">>,
     Price |-> <<>>,
     PriceToMarket |-> <<"1","0","0","%">>, DOL |-> <<"6","0">>,
     Mileage |-> <<"0">>, VDPs |-> <<"4","5">>,
     Opportunities |-> <<"3">>]

\* a row whose identifier has 16 characters
RowShortVin ==
    [VIN |-> <<"1","H","G","C","M","8","2","6","3","3","A","1","2","3","4","5">>,
     Year |-> <<"2","0","1","8">>, Make |-> <<"H","o","n","d","a">>,
     Model |-> <<"A","c","c","o","r","d">>,
     Price |-> <<"$","2","5",",","0","0","0">>,
     PriceToMarket |-> <<"9","5","%">>, DOL |-> <<"2","5">>,
     Mileage |-> <<"5","0",",","0","0","0">>, VDPs |-> <<"1","5","0">>,
     Opportunities |-> <<"5">>]

RowPool == {RowHonda, RowAcura, RowHondaAgain, RowToyota, RowShortVin}

MaxRows == 2

RECURSIVE SeqsUpTo(_, _)
SeqsUpTo(S, n) ==
    IF n = 0 THEN {<<>>}
    ELSE SeqsUpTo(S, n - 1)
         \cup {Append(q, x) : q \in {r \in SeqsUpTo(S, n - 1) : Len(r) = n - 1}, x \in S}

CsvFiles == SeqsUpTo(RowPool, MaxRows)

\* the identifiers clients send: known, unknown and malformed ones, in
\* upper and in lower case, bare and between blanks
MaxPad == 1

Lower(s) == [i \in DOMAIN s |-> LowerChar(s[i])]

Blanks(n) == [i \in 1..n |-> " "]

RequestVins ==
    {<<>>}
    \cup {Blanks(n) \o v \o Blanks(n) :
            n \in 0..MaxPad,
            v \in UNION {{b, Lower(b)} : b \in {VinA, VinC, VinUnknown, VinShort}}}

\* what the remote model answers in the service
ServiceReplies ==
    {[kind |-> "api_error", obj |-> NoObject],
     [kind |-> "json",
      obj |-> [k \in RequiredKeys |->
                  IF k = "summary" THEN JStr(<<"Test summary">>)
                  ELSE IF k = "risk_score" THEN JInt(15)
                  ELSE JStr(<<"Test reasoning">>)]]}

Init ==
    /\ phase = "loading"
    /\ pending \in CsvFiles
    /\ vehicles = NoVehicles
    /\ order = <<>>
    /\ use_llm = FALSE
    /\ llm_service = "None"
    /\ current_year = FirstYear
    /\ arg \in RequestVins
    /\ remote \in ServiceReplies
    /\ last = NoCall
    /\ earlier = <<>>

\* the rows of a file: the priced and unpriced rows above, a second row
\* for the first identifier, and the first row with one cell spoilt
LoadRowPool ==
    {RowHonda, RowAcura, RowHondaAgain, RowToyota, RowShortVin,
     [RowHonda EXCEPT !.VIN = <<>>],
     [RowHonda EXCEPT !.VIN = <<" ", " ">>],
     [RowHonda EXCEPT !.Year = <<"a","b","c">>],
     [RowHonda EXCEPT !.Year = <<"0">>],
     [RowHonda EXCEPT !.Year = <<"1","9","7","9">>],
     [RowHonda EXCEPT !.Year = <<"2","0","3","1">>],
     [RowHonda EXCEPT !.Make = <<>>],
     [RowHonda EXCEPT !.Model = <<" ">>],
     [RowHonda EXCEPT !.Price = <<"-","5","0","0">>],
     [RowHonda EXCEPT !.DOL = <<"-","5">>],
     [RowHonda EXCEPT !.Mileage = <<"-","1">>],
     [RowHonda EXCEPT !.VDPs = <<"-","7">>],
     [RowAcura EXCEPT !.Opportunities = <<"-","2">>]}

\* a record whose mileage is average for its age in one year and low in
\* the next
RowNissan ==
    [RowToyota EXCEPT !.Year = <<"2","0","2","4">>,
                      !.Make = <<"N","i","s","s","a","n">>,
                      !.Model = <<"A","l","t","i","m","a">>,
                      !.Price = <<"$","3","0",",","5","0","0">>,
                      !.Mileage = <<"1","4",",","0","0","0">>]

\* self._parse_row(row) for every row a file may hold, computed once
ParsedRow == [row \in RowPool \cup LoadRowPool \cup {RowNissan} |-> parse_row(row)]

\* one turn of the loop of DataLoader._load_data
LoadRow ==
    /\ phase = "loading"
    /\ pending # <<>>
    /\ LET vehicle == ParsedRow[Head(pending)]
       IN  IF vehicle # None
           THEN /\ vehicles' = DictPut(vehicles, vehicle[1].vin, vehicle[1])
                /\ order' = OrderPut(order, vehicle[1].vin)
           ELSE UNCHANGED <<vehicles, order>>
    /\ pending' = Tail(pending)
    /\ UNCHANGED <<phase, use_llm, llm_service, current_year, arg, earlier, remote, last>>

\* the file is read: VinAnalyzer.__init__ builds the engine and the
\* lifespan installs the analyzer
FinishStartup(use_llm_arg, key_available) ==
    /\ phase = "loading"
    /\ pending = <<>>
    /\ phase' = "ready"
    /\ use_llm' = risk_engine_init(use_llm_arg, key_available).use_llm
    /\ llm_service' = risk_engine_init(use_llm_arg, key_available).llm_service
    /\ UNCHANGED <<pending, vehicles, order, current_year, arg, earlier, remote, last>>

Reply == IF LlmAsked(use_llm, llm_service) THEN remote ELSE NoReply

Unchanged == UNCHANGED <<phase, pending, vehicles, order, use_llm, llm_service,
                         current_year, arg, earlier, remote>>

\* data_loader.get_vehicle_by_vin(arg)
GetVehicleByVin ==
    /\ phase = "ready"
    /\ last' = [op |-> "get_vehicle_by_vin", vin |-> arg,
                ret |-> get_vehicle_by_vin(vehicles, arg)]
    /\ Unchanged

\* an analysis that counts itself as views of the record it looked up
AnalyzeVinCountingViews ==
    /\ phase = "ready"
    /\ last' = [op |-> "analyze_vin", vin |-> arg, year |-> current_year,
                ret |-> analyze_vin(vehicles, arg, Reply, use_llm, llm_service,
                                    current_year)]
    /\ vehicles' = IF NormalizeVin(arg) \in DOMAIN vehicles
                       /\ vehicles[NormalizeVin(arg)].total_vdps <= 200
                   THEN [vehicles EXCEPT ![NormalizeVin(arg)].total_vdps = @ + 60]
                   ELSE vehicles
    /\ UNCHANGED <<phase, pending, order, use_llm, llm_service, current_year,
                   arg, earlier, remote>>

\* analyzer.analyze_vin(arg)
AnalyzeVin ==
    /\ phase = "ready"
    /\ last' = [op |-> "analyze_vin", vin |-> arg, year |-> current_year,
                ret |-> analyze_vin(vehicles, arg, Reply, use_llm, llm_service,
                                    current_year)]
    /\ Unchanged

\* analyzer.get_vehicle_data(arg)
GetVehicleData ==
    /\ phase = "ready"
    /\ last' = [op |-> "get_vehicle_data", vin |-> arg,
                ret |-> get_vehicle_data(vehicles, arg)]
    /\ Unchanged

\* an existence check that leaves an empty entry for an identifier it missed
ValidateVinExistsDefaulting ==
    /\ phase = "ready"
    /\ last' = [op |-> "validate_vin_exists", vin |-> arg,
                ret |-> validate_vin_exists(vehicles, arg)]
    /\ vehicles' = IF NormalizeVin(arg) \in DOMAIN vehicles THEN vehicles
                   ELSE DictPut(vehicles, NormalizeVin(arg),
                                VehicleData(NormalizeVin(arg), 0, <<>>, <<>>, 0, 0,
                                            0, 0, 0, 0))
    /\ order' = OrderPut(order, NormalizeVin(arg))
    /\ UNCHANGED <<phase, pending, use_llm, llm_service, current_year, arg,
                   earlier, remote>>

\* analyzer.validate_vin_exists(arg)
ValidateVinExists ==
    /\ phase = "ready"
    /\ last' = [op |-> "validate_vin_exists", vin |-> arg,
                ret |-> validate_vin_exists(vehicles, arg)]
    /\ Unchanged

\* analyzer.get_database_stats()
GetDatabaseStats ==
    /\ phase = "ready"
    /\ last' = [op |-> "get_database_stats",
                ret |-> get_database_stats(vehicles, order)]
    /\ Unchanged

\* data_loader.get_all_vehicles()
GetAllVehicles ==
    /\ phase = "ready"
    /\ last' = [op |-> "get_all_vehicles", ret |-> get_all_vehicles(vehicles, order)]
    /\ Unchanged

\* data_loader.get_vehicles_by_make(make)
GetVehiclesByMake(make) ==
    /\ phase = "ready"
    /\ last' = [op |-> "get_vehicles_by_make", make |-> make,
                ret |-> get_vehicles_by_make(vehicles, order, make)]
    /\ Unchanged

\* data_loader.get_vehicles_by_year(year)
GetVehiclesByYear(year) ==
    /\ phase = "ready"
    /\ last' = [op |-> "get_vehicles_by_year", year |-> year,
                ret |-> get_vehicles_by_year(vehicles, order, year)]
    /\ Unchanged

\* data_loader.calculate_average_mileage_for_age(vehicle_age)
CalculateAverageMileageForAge(vehicle_age) ==
    /\ phase = "ready"
    /\ last' = [op |-> "calculate_average_mileage_for_age",
                vehicle_age |-> vehicle_age, year |-> current_year,
                ret |-> calculate_average_mileage_for_age(vehicles, order,
                                                          vehicle_age)]
    /\ Unchanged

\* data_loader.get_vehicle_count()
GetVehicleCount ==
    /\ phase = "ready"
    /\ last' = [op |-> "get_vehicle_count", ret |-> get_vehicle_count(vehicles)]
    /\ Unchanged

\* the caller keeps the analysis it just received
Remember ==
    /\ phase = "ready"
    /\ last.op = "analyze_vin"
    /\ earlier' = Some(last)
    /\ UNCHANGED <<phase, pending, vehicles, order, use_llm, llm_service,
                   current_year, arg, remote, last>>

\* POST /api/v1/analyze {"vin": arg}
RouteAnalyzeVin ==
    /\ last' = [op |-> "route_analyze_vin", installed |-> phase = "ready", vin |-> arg,
                ret |-> route_analyze_vin(phase = "ready", vehicles, arg, Reply,
                                          use_llm, llm_service, current_year)]
    /\ Unchanged

\* POST /api/v1/validate {"vin": arg}
RouteValidateVin ==
    /\ last' = [op |-> "route_validate_vin", installed |-> phase = "ready", vin |-> arg,
                ret |-> route_validate_vin(phase = "ready", vehicles, arg)]
    /\ Unchanged

\* GET /api/v1/stats
RouteGetDatabaseStats ==
    /\ last' = [op |-> "route_get_database_stats", installed |-> phase = "ready",
                ret |-> route_get_database_stats(phase = "ready", vehicles, order)]
    /\ Unchanged

Next ==
    \/ LoadRow
    \/ \E u \in BOOLEAN, k \in BOOLEAN : FinishStartup(u, k)
    \/ GetVehicleByVin
    \/ AnalyzeVin
    \/ GetVehicleData
    \/ ValidateVinExists
    \/ GetDatabaseStats
    \/ RouteAnalyzeVin
    \/ RouteValidateVin
    \/ RouteGetDatabaseStats

Spec == Init /\ [][Next]_vars

-----------------------------------------------------------------------------
(* The load on its own: files with rows of every kind.  arg is the file    *)
(* DataLoader is given, pending the rows of it not read yet.               *)

LoadFiles == SeqsUpTo(LoadRowPool, MaxRows)

InitLoad ==
    /\ phase = "loading"
    /\ pending \in LoadFiles
    /\ vehicles = NoVehicles
    /\ order = <<>>
    /\ use_llm = FALSE
    /\ llm_service = "None"
    /\ current_year = FirstYear
    /\ arg = pending
    /\ remote = NoReply
    /\ last = NoCall
    /\ earlier = <<>>

NextLoad ==
    \/ LoadRow
    \/ \E u \in BOOLEAN, k \in BOOLEAN : FinishStartup(u, k)
    \/ GetVehicleCount
    \/ GetAllVehicles

SpecLoad == InitLoad /\ [][NextLoad]_vars

\* _load_data is one loop run to its end by the constructor, and the
\* lifespan installs the analyzer as soon as the constructor returns
SpecLoadFair ==
    /\ SpecLoad
    /\ WF_vars(LoadRow)
    /\ WF_vars(\E u \in BOOLEAN, k \in BOOLEAN : FinishStartup(u, k))

-----------------------------------------------------------------------------
(* The store in service: every query of DataLoader and VinAnalyzer, over   *)
(* the years                                                               *)

StoreFiles == SeqsUpTo({RowHonda, RowHondaAgain, RowNissan}, MaxRows)

StoreVins == {VinA, <<" ">> \o Lower(VinC) \o <<" ">>, VinUnknown}

InitStore ==
    /\ phase = "loading"
    /\ pending \in StoreFiles
    /\ vehicles = NoVehicles
    /\ order = <<>>
    /\ use_llm = FALSE
    /\ llm_service = "None"
    /\ current_year = FirstYear
    /\ arg \in StoreVins
    /\ remote \in ServiceReplies
    /\ last = NoCall
    /\ earlier = <<>>

NextStore ==
    \/ LoadRow
    \/ \E u \in BOOLEAN, k \in BOOLEAN : FinishStartup(u, k)
    \/ NewYear
    \/ GetVehicleByVin
    \/ GetAllVehicles
    \/ \E make \in {MakeHonda, <<" ","n","i","s","s","a","n">>} : GetVehiclesByMake(make)
    \/ \E year \in {2018, 2024} : GetVehiclesByYear(year)
    \/ \E vehicle_age \in {1, 7} : CalculateAverageMileageForAge(vehicle_age)
    \/ GetVehicleCount
    \/ AnalyzeVin
    \/ Remember
    \/ GetVehicleData
    \/ ValidateVinExists
    \/ GetDatabaseStats

SpecStore == InitStore /\ [][NextStore]_vars

-----------------------------------------------------------------------------
(* Properties of the scoring engine                                        *)

ScoredCall == last.op = "calculate_risk_factors"

FiveImpacts(f) ==
    f.days_on_lot_impact + f.price_to_market_impact + f.vdp_views_impact
    + f.mileage_impact + f.sales_opportunities_impact

\* the missing-data adjustment of a record, stated from its two rules
MissingDataOf(v) ==
    (IF v.current_price = 0 THEN 1 ELSE 0)
    + (IF v.price_to_market_percent = 0 /\ v.days_on_lot > 100 THEN 1 ELSE 0)
    - (IF v.price_to_market_percent = 0 /\ v.days_on_lot < 10 THEN 1 ELSE 0)

\* C1: for every record and every evaluation year, calculate_risk_factors
\* gives total_adjustments = the plain sum of the five impacts and the
\* missing-data adjustment, and final_score = 5 + total_adjustments cut to
\* 1..10: 10 when the raw score is above 10 (13 at most), 1 when it is
\* below 1, the raw score itself in between.
C1_FinalScoreIsClampedSum ==
    ScoredCall =>
        LET f == last.factors
            raw == 5 + f.total_adjustments
        IN  /\ f.total_adjustments = FiveImpacts(f) + MissingDataOf(last.vehicle)
            /\ f.days_on_lot_impact \in {-2, 0, 2}
            /\ f.price_to_market_impact \in {-2, 0, 2}
            /\ f.vdp_views_impact \in {-1, 0, 1}
            /\ f.mileage_impact \in {-1, 0, 1}
            /\ f.sales_opportunities_impact \in {-1, 0, 1}
            /\ f.baseline_score = 5
            /\ raw <= 13
            /\ f.final_score \in 1..10
            /\ (raw > 10 => f.final_score = 10)
            /\ (raw < 1 => f.final_score = 1)
            /\ (raw \in 1..10 => f.final_score = raw)

\* every factor at its maximum and a zero price: raw 13, scored 10
C1_Witness_Raw13Scores10 ==
    /\ ScoredCall
    /\ last.vehicle.current_price = 0
    /\ FiveImpacts(last.factors) = 7
    /\ last.factors.total_adjustments = 8
    /\ last.factors.final_score = 10

-----------------------------------------------------------------------------
(* Properties of assess_risk                                               *)

AssessedCall == last.op = "assess_risk"

\* the generator failed: the call raised, the content held no JSON object,
\* or the object lacks a required key
GeneratorFailed(reply) ==
    \/ reply.kind \in {"api_error", "non_object", "bad_braces", "garbage"}
    \/ /\ reply.kind \in {"json", "wrapped"}
       /\ ~(RequiredKeys \subseteq DOMAIN reply.obj)

\* C2: when the generator is enabled and fails for a request, assess_risk
\* returns the assessment of the algorithmic strategy for that record:
\* summary of generate_summary, reasoning of generate_reasoning, risk_score
\* = final_score.
C2_FailedGeneratorGivesAlgorithmic ==
    (AssessedCall /\ last.llm_asked /\ GeneratorFailed(last.reply)) =>
        /\ last.assessment.summary = generate_summary(last.vehicle, last.factors)
        /\ last.assessment.reasoning =
               generate_reasoning(last.vehicle, last.factors, last.year)
        /\ last.assessment.risk_score = last.factors.final_score

\* C3: every assessment assess_risk returns has risk_score in 1..10, a
\* non-empty summary and a non-empty reasoning, whatever the generator
\* answered.
C3_AssessmentWellFormed ==
    AssessedCall =>
        /\ last.assessment.risk_score \in 1..10
        /\ last.assessment.summary # <<>>
        /\ last.assessment.reasoning # <<>>

\* the generator answered an object with an integer score, a summary and a
\* reasoning
GeneratorAnswered(reply) ==
    /\ reply.kind \in {"json", "wrapped"}
    /\ RequiredKeys \subseteq DOMAIN reply.obj
    /\ reply.obj["risk_score"].t = "int"
    /\ reply.obj["summary"].t = "str"
    /\ reply.obj["reasoning"].t = "str"

\* C4: a score s the generator returns with a summary and a reasoning
\* reaches the caller as s cut to 1..10, with the generator's texts.
C4_GeneratorScoreClamped ==
    (AssessedCall /\ last.llm_asked /\ GeneratorAnswered(last.reply)) =>
        LET s == last.reply.obj["risk_score"].n
        IN  /\ last.assessment.risk_score =
                   (IF s < 1 THEN 1 ELSE IF s > 10 THEN 10 ELSE s)
            /\ last.assessment.summary = last.reply.obj["summary"].s
            /\ last.assessment.reasoning = last.reply.obj["reasoning"].s

\* the generator answered 15 for a record the engine scores below 10, and
\* the caller got 10
C4_Witness_FifteenBecomesTen ==
    /\ AssessedCall
    /\ last.llm_asked
    /\ GeneratorAnswered(last.reply)
    /\ last.reply.obj["risk_score"].n = 15
    /\ last.factors.final_score < 10
    /\ last.assessment.risk_score = 10

-----------------------------------------------------------------------------
(* Properties of the lookups                                               *)

\* the identifier a caller means: trimmed, in upper case
Canonical(v) == Upper(Strip(v))

Stored(v) == Canonical(v) \in DOMAIN vehicles

LookupCall == last.op \in {"get_vehicle_by_vin", "get_vehicle_data", "analyze_vin"}

\* C5: for an identifier that, trimmed and upper-cased, is no key of the
\* store, get_vehicle_by_vin, get_vehicle_data and analyze_vin fail with
\* VehicleNotFoundError, return no record, and analyze_vin does not call
\* the engine.
C5_UnknownIdentifierNotFound ==
    (LookupCall /\ ~Stored(last.vin)) =>
        /\ last.ret.status = "VehicleNotFoundError"
        /\ last.ret.value = None
        /\ (last.op = "analyze_vin" => ~last.ret.engine_invoked)

\* analyze_vin of the unknown identifier on a store that holds records
C5_Witness_UnknownOnFilledStore ==
    /\ last.op = "analyze_vin"
    /\ last.vin = VinUnknown
    /\ DOMAIN vehicles # {}
    /\ last.ret.status = "VehicleNotFoundError"

IdentifierCall ==
    last.op \in {"get_vehicle_by_vin", "get_vehicle_data", "analyze_vin",
                 "validate_vin_exists"}

\* what the call of last.op answers for another identifier
AnswerFor(v) ==
    IF last.op = "get_vehicle_by_vin" THEN get_vehicle_by_vin(vehicles, v)
    ELSE IF last.op = "get_vehicle_data" THEN get_vehicle_data(vehicles, v)
    ELSE IF last.op = "analyze_vin"
    THEN analyze_vin(vehicles, v, Reply, use_llm, llm_service, current_year)
    ELSE validate_vin_exists(vehicles, v)

\* C6: two identifiers that are equal once trimmed and upper-cased get the
\* same answer: the same stored record for both, or not-found for both.
C6_LookupIgnoresCaseAndBlanks ==
    IdentifierCall =>
        /\ \A other \in RequestVins :
               Canonical(other) = Canonical(last.vin) => AnswerFor(other) = last.ret
        /\ (last.op \in {"get_vehicle_by_vin", "get_vehicle_data"} =>
               IF Stored(last.vin)
               THEN last.ret = Returned(vehicles[Canonical(last.vin)])
               ELSE last.ret.status = "VehicleNotFoundError")

\* the stored Honda found under its identifier in lower case between blanks
C6_Witness_LowerCasePaddedFound ==
    /\ last.op = "get_vehicle_by_vin"
    /\ last.vin = <<" ">> \o Lower(VinA) \o <<" ">>
    /\ last.ret.status = "ok"
    /\ last.ret.value[1].vin = VinA

RouteIdentifierCall == last.op \in {"route_analyze_vin", "route_validate_vin"}

WellFormed(v) == Len(Strip(v)) = 17

\* C7: an identifier whose trimmed length is not 17 is rejected as a
\* validation error before any lookup and never reported as not-found; a
\* well-formed identifier the store does not hold is reported as not-found,
\* never as a validation error.
C7_MalformedAndNotFoundApart ==
    /\ (RouteIdentifierCall /\ ~WellFormed(last.vin)) =>
           /\ last.ret.http = 422
           /\ last.ret.lookups = 0
    /\ (last.op = "route_analyze_vin" /\ last.installed /\ WellFormed(last.vin)
        /\ ~Stored(last.vin)) =>
           /\ last.ret.http = 404
           /\ last.ret.lookups = 1

\* the 16-character identifier sent to a running service
C7_Witness_ShortIdentifierRejected ==
    /\ last.op = "route_analyze_vin"
    /\ last.installed
    /\ last.vin = VinShort
    /\ DOMAIN vehicles # {}
    /\ last.ret.http = 422

\* C8: validate_vin_exists raises nothing and answers true exactly when
\* get_vehicle_by_vin succeeds, that is exactly when analyze_vin does not
\* fail with not-found.
C8_ExistsAgreesWithLookup ==
    last.op = "validate_vin_exists" =>
        /\ last.ret.status = "ok"
        /\ last.ret.value = Some(Stored(last.vin))
        /\ last.ret.value[1] = (get_vehicle_by_vin(vehicles, last.vin).status = "ok")
        /\ last.ret.value[1] =
               (analyze_vin(vehicles, last.vin, Reply, use_llm, llm_service,
                            current_year).status # "VehicleNotFoundError")

\* true for the stored Honda asked for in lower case between blanks
C8_Witness_ExistsInLowerCase ==
    /\ last.op = "validate_vin_exists"
    /\ last.vin = <<" ">> \o Lower(VinA) \o <<" ">>
    /\ last.ret = Returned(TRUE)

-----------------------------------------------------------------------------
(* Properties of the statistics                                            *)

StatsCall == last.op = "get_database_stats"

NoPrices == [min |-> None, max |-> None, avg |-> None]

\* C9: get_database_stats returns a result for every store: count 0, no
\* manufacturers, a null year range and a null price range for the empty
\* store, and no division by zero when every record has price zero.
C9_StatsNeverFail ==
    StatsCall =>
        /\ last.ret.status = "ok"
        /\ (DOMAIN vehicles = {} =>
               last.ret.value = Some([total_vehicles |-> 0, makes |-> <<>>,
                                      year_range |-> None, price_range |-> None]))
        /\ ((DOMAIN vehicles # {}
             /\ \A k \in DOMAIN vehicles : vehicles[k].current_price = 0) =>
               last.ret.value[1].price_range = Some(NoPrices))

\* the statistics of a store that holds records, none of them priced
C9_Witness_NoPricedRecord ==
    /\ StatsCall
    /\ DOMAIN vehicles # {}
    /\ \A k \in DOMAIN vehicles : vehicles[k].current_price = 0
    /\ last.ret.status = "ok"

RECURSIVE PriceSum(_)
PriceSum(keys) ==
    IF keys = {} THEN 0
    ELSE LET k == CHOOSE x \in keys : TRUE
         IN  vehicles[k].current_price + PriceSum(keys \ {k})

-----------------------------------------------------------------------------
(* Worked example and factor tables                                        *)

\* C14: the 2018 Honda Accord priced 25000 at 95% of market, 25 days on the
\* lot, 50000 miles, 150 views and 5 opportunities, scored in 2025, has the
\* impacts days 0, price -2, views 0, mileage 0 and opportunities 0, and the
\* final score 3.
C14_SampleVehicleScoresThree ==
    (ScoredCall /\ last.vehicle = SampleVehicle /\ last.year = 2025) =>
        /\ last.factors.days_on_lot_impact = 0
        /\ last.factors.price_to_market_impact = -2
        /\ last.factors.vdp_views_impact = 0
        /\ last.factors.mileage_impact = 0
        /\ last.factors.sales_opportunities_impact = 0
        /\ last.factors.final_score = 3

\* C18: the price-to-market impact is -2 for every percentage up to 95, 0
\* from 96 to 105 and +2 only above 105, fractional percentages included.
C18_PriceImpactTable ==
    ScoredCall =>
        LET pct == last.vehicle.price_to_market_percent
            impact == last.factors.price_to_market_impact
        IN  /\ impact \in {-2, 0, 2}
            /\ (pct <= 95 * PctScale => impact = -2)
            /\ ((96 * PctScale <= pct /\ pct <= 105 * PctScale) => impact = 0)
            /\ (impact = 2 <=> pct > 105 * PctScale)

\* C19: a record whose price_to_market_percent is 0, the "unavailable"
\* sentinel, gets no below-market adjustment: its price-to-market impact is
\* not -2 and its total is the sum of the other four impacts and the
\* missing-data adjustment.
C19_SentinelNotScored ==
    (ScoredCall /\ last.vehicle.price_to_market_percent = 0) =>
        /\ last.factors.price_to_market_impact # -2
        /\ last.factors.total_adjustments
              = FiveImpacts(last.factors) - last.factors.price_to_market_impact
                + MissingDataOf(last.vehicle)

\* C20: the days-on-lot impact is -2 below 15 days, 0 from 15 to 45 days
\* and +2 above 45 days: 14 gives -2, 15 gives 0, 45 gives 0, 46 gives +2.
C20_DaysOnLotTable ==
    ScoredCall =>
        LET days == last.vehicle.days_on_lot
            impact == last.factors.days_on_lot_impact
        IN  /\ (days < 15 => impact = -2)
            /\ ((15 <= days /\ days <= 45) => impact = 0)
            /\ (days > 45 => impact = 2)
            /\ (days = 14 => impact = -2)
            /\ (days = 15 => impact = 0)
            /\ (days = 45 => impact = 0)
            /\ (days = 46 => impact = 2)

\* a record on the lot for exactly 15 days is scored 0 for it
C20_Witness_FifteenDaysNeutral ==
    /\ ScoredCall
    /\ last.vehicle.days_on_lot = 15
    /\ last.factors.days_on_lot_impact = 0

-----------------------------------------------------------------------------
(* The mode of the engine                                                  *)

ConstructedCall == last.op = "RiskEngine"

\* C16: the mode of the engine is decided by its constructor and by nothing
\* else.  A constructor asked for the generator that cannot build it leaves
\* use_llm false and no generator instance; use_llm true implies a
\* generator instance; no step of a constructed engine, an assess_risk call
\* with a failing generator included, changes use_llm or the instance; and
\* an engine in algorithmic mode never asks the generator.
C16_ModeDecidedAtConstruction ==
    /\ []((ConstructedCall /\ last.use_llm /\ ~last.key_available) =>
             (~use_llm /\ llm_service = "None"))
    /\ [](phase = "engine" => (use_llm => llm_service # "None"))
    /\ [][phase = "engine" => UNCHANGED <<use_llm, llm_service>>]_vars
    /\ []((AssessedCall /\ ~use_llm) => (~last.llm_asked /\ last.reply = NoReply))

\* the generator was asked for and no key was there: the engine is built in
\* algorithmic mode
C16_Witness_FailedInitAlgorithmic ==
    /\ phase = "engine"
    /\ ConstructedCall
    /\ last.use_llm
    /\ ~last.key_available
    /\ ~use_llm
    /\ llm_service = "None"

-----------------------------------------------------------------------------
(* Properties of the load                                                  *)

\* the rows of the file read so far
ReadRows == SubSeq(arg, 1, Len(arg) - Len(pending))

\* the identifier of a row as the store compares it
RowKey(row) == Upper(Strip(row.VIN))

\* a row none of whose cells makes the record invalid: an identifier of 17
\* characters, a model year in range, a manufacturer and a model, and no
\* negative price, days on lot or mileage
RowIsValid(row) ==
    /\ Len(Strip(row.VIN)) = 17
    /\ clean_integer(row.Year) \in 1980..2030
    /\ Strip(row.Make) # <<>>
    /\ Strip(row.Model) # <<>>
    /\ clean_price(row.Price) >= 0
    /\ clean_integer(row.DOL) >= 0
    /\ clean_integer(row.Mileage) >= 0

\* every valid row read so far has its identifier in the store, and the
\* store holds nothing but identifiers of valid rows
ValidRowsStored ==
    /\ \A i \in DOMAIN ReadRows :
           RowIsValid(ReadRows[i]) => RowKey(ReadRows[i]) \in DOMAIN vehicles
    /\ \A k \in DOMAIN vehicles :
           \E i \in DOMAIN ReadRows :
               RowIsValid(ReadRows[i]) /\ RowKey(ReadRows[i]) = k

\* C11: a row that gives no valid record is skipped and the load goes on:
\* for every file the load comes to its end with every row read, and every
\* valid row read, before or after an invalid one, has its identifier in
\* the store, which holds nothing but identifiers of valid rows.
C11_InvalidRowsSkipped ==
    /\ []ValidRowsStored
    /\ [](phase = "ready" => pending = <<>>)
    /\ <>(phase = "ready" /\ ReadRows = arg)

\* a file with a row without identifier before an unpriced row: the load is
\* over and the unpriced row is stored
C11_Witness_ValidAfterInvalid ==
    /\ phase = "ready"
    /\ arg = <<[RowHonda EXCEPT !.VIN = <<>>], RowAcura>>
    /\ DOMAIN vehicles = {VinB}

\* C12: every stored record has an upper-case identifier of 17 characters
\* (its key), a model year in 1980..2030, a manufacturer and a model, and
\* no negative price, days on lot, mileage, views or sales opportunities.
C12_StoredRecordsValid ==
    \A k \in DOMAIN vehicles :
        LET v == vehicles[k]
        IN  /\ v.vin = k
            /\ Len(k) = 17
            /\ Upper(k) = k
            /\ v.year \in 1980..2030
            /\ v.make # <<>>
            /\ v.model # <<>>
            /\ v.current_price >= 0
            /\ v.days_on_lot >= 0
            /\ v.mileage >= 0
            /\ v.total_vdps >= 0
            /\ v.sales_opportunities >= 0

\* the rows read so far that parse and carry the identifier k
ParsedRowsOf(k) ==
    {i \in DOMAIN ReadRows : RowKey(ReadRows[i]) = k /\ parse_row(ReadRows[i]) # None}

\* C13: the store maps an identifier to the record of the last row read
\* that parses and carries it (compared trimmed and in upper case); a later
\* row with the identifier that does not parse changes nothing; and there
\* is one entry per identifier.
C13_LastParsedRowWins ==
    /\ \A k \in DOMAIN vehicles :
           /\ ParsedRowsOf(k) # {}
           /\ \E i \in ParsedRowsOf(k) :
                  /\ \A j \in ParsedRowsOf(k) : j <= i
                  /\ vehicles[k] = parse_row(ReadRows[i])[1]
    /\ \A i \in DOMAIN ReadRows :
           parse_row(ReadRows[i]) # None => RowKey(ReadRows[i]) \in DOMAIN vehicles
    /\ Len(order) = Cardinality(DOMAIN vehicles)
    /\ Range(order) = DOMAIN vehicles

\* the second row repeats the identifier of the first in lower case between
\* blanks: one entry, with the data of the second row
C13_Witness_SecondRowReplacesFirst ==
    /\ phase = "ready"
    /\ arg = <<RowHonda, RowHondaAgain>>
    /\ DOMAIN vehicles = {VinA}
    /\ vehicles[VinA].year = 2019
    /\ vehicles[VinA].model = <<"C","I","V","I","C">>

-----------------------------------------------------------------------------
(* Properties of the store in service                                      *)

\* C15: in algorithmic mode an analyze_vin call returns what an earlier call
\* with the same identifier returned in the same year (the same status and,
\* when found, the same risk_score, summary and reasoning), whatever calls
\* were made in between.
C15_AnalysisRepeats ==
    (/\ last.op = "analyze_vin"
     /\ earlier # <<>>
     /\ ~use_llm
     /\ earlier[1].vin = last.vin
     /\ earlier[1].year = last.year) =>
        /\ last.ret.status = earlier[1].ret.status
        /\ last.ret.value = earlier[1].ret.value

\* a stored record analyzed again in algorithmic mode, after the year has
\* changed, with an analysis of the same year kept from before
C15_Witness_SecondAnalysisSameYear ==
    /\ last.op = "analyze_vin"
    /\ earlier # <<>>
    /\ ~use_llm
    /\ earlier[1].year = last.year
    /\ last.year > FirstYear
    /\ last.ret.status = "ok"
    /\ last.ret.value[1].risk_score = earlier[1].ret.value[1].risk_score

\* C17: once the service is started no operation changes the store: the
\* identifiers, their order and every field of every record stay as loaded.
C17_StoreReadOnly ==
    [][phase = "ready" => (vehicles' = vehicles /\ order' = order)]_vars

\* a filled store queried for an average mileage after an analysis was made
C17_Witness_QueriedAfterAnalysis ==
    /\ phase = "ready"
    /\ last.op = "calculate_average_mileage_for_age"
    /\ earlier # <<>>
    /\ Cardinality(DOMAIN vehicles) = 2

-----------------------------------------------------------------------------
(* The other factor tables                                                 *)

\* C21: the mileage impact is -1 for a mileage of 0 whatever the model year
\* and the evaluation year; for a positive mileage, with expected = 12000 x
\* (evaluation year - model year), it is -1 below 0.8 x expected, 0 from
\* 0.8 x expected to 1.2 x expected, +1 above; it is always -1, 0 or +1.
C21_MileageTable ==
    ScoredCall =>
        LET mileage == last.vehicle.mileage
            expected == 12000 * (last.year - last.vehicle.year)
            impact == last.factors.mileage_impact
        IN  /\ impact \in {-1, 0, 1}
            /\ (mileage = 0 => impact = -1)
            /\ (mileage > 0 =>
                   /\ (10 * mileage < 8 * expected => impact = -1)
                   /\ ((8 * expected <= 10 * mileage /\ 10 * mileage <= 12 * expected)
                          => impact = 0)
                   /\ (10 * mileage > 12 * expected => impact = 1))

\* a vehicle of a model year to come, without mileage
C21_Witness_NoMileageFutureYear ==
    /\ ScoredCall
    /\ last.vehicle.mileage = 0
    /\ last.vehicle.year > last.year
    /\ last.factors.mileage_impact = -1

\* C22: the missing-data adjustment (the total less the five impacts) is +1
\* for a price of 0 plus, only when the price-to-market percentage is 0, +1
\* for more than 100 days on the lot or -1 for fewer than 10; it is 0 when
\* neither price nor percentage is 0, and always one of -1, 0, +1, +2.
C22_MissingDataAdjustment ==
    ScoredCall =>
        LET v == last.vehicle
            adjustment == last.factors.total_adjustments - FiveImpacts(last.factors)
        IN  /\ adjustment \in {-1, 0, 1, 2}
            /\ adjustment
                 = (IF v.current_price = 0 THEN 1 ELSE 0)
                   + (IF v.price_to_market_percent # 0 THEN 0
                      ELSE IF v.days_on_lot > 100 THEN 1
                      ELSE IF v.days_on_lot < 10 THEN -1
                      ELSE 0)
            /\ ((v.current_price # 0 /\ v.price_to_market_percent # 0)
                   => adjustment = 0)

\* a priced record with its percentage, 101 days on the lot: no adjustment
C22_Witness_LongOnLotWithData ==
    /\ ScoredCall
    /\ last.vehicle.current_price > 0
    /\ last.vehicle.price_to_market_percent > 0
    /\ last.vehicle.days_on_lot > 100
    /\ last.factors.total_adjustments = FiveImpacts(last.factors)

\* C23: the views impact is -1 above 200 views, 0 from 50 to 200, +1 below
\* 50; the sales-opportunities impact is -1 above 10, 0 from 3 to 10, +1 up
\* to 2; each is -1, 0 or +1.
C23_CounterTables ==
    ScoredCall =>
        LET views == last.vehicle.total_vdps
            opportunities == last.vehicle.sales_opportunities
            by_views == last.factors.vdp_views_impact
            by_opportunities == last.factors.sales_opportunities_impact
        IN  /\ by_views \in {-1, 0, 1}
            /\ by_opportunities \in {-1, 0, 1}
            /\ (views > 200 <=> by_views = -1)
            /\ ((50 <= views /\ views <= 200) <=> by_views = 0)
            /\ (views < 50 <=> by_views = 1)
            /\ (opportunities > 10 <=> by_opportunities = -1)
            /\ ((3 <= opportunities /\ opportunities <= 10) <=> by_opportunities = 0)
            /\ (opportunities <= 2 <=> by_opportunities = 1)

\* 200 views and 2 opportunities: the upper end of "moderate" and of "few"
C23_Witness_TwoHundredViewsTwoOpportunities ==
    /\ ScoredCall
    /\ last.vehicle.total_vdps = 200
    /\ last.vehicle.sales_opportunities = 2
    /\ last.factors.vdp_views_impact = 0
    /\ last.factors.sales_opportunities_impact = 1

\* C30: a record with a positive mileage and a model year not before the
\* evaluation year has the mileage impact +1, however small the mileage.
C30_YoungVehicleWithMileage ==
    (ScoredCall /\ last.vehicle.mileage > 0 /\ last.vehicle.year >= last.year) =>
        last.factors.mileage_impact = 1

\* one mile on a vehicle of the evaluation year
C30_Witness_OneMileThisYear ==
    /\ ScoredCall
    /\ last.vehicle.mileage = 1
    /\ last.vehicle.year = last.year
    /\ last.factors.mileage_impact = 1

-----------------------------------------------------------------------------
(* Properties of the algorithmic texts                                     *)

\* assess_risk answered without asking the generator
AlgorithmicCall == AssessedCall /\ ~last.llm_asked

\* text.split(sep)
RECURSIVE SplitText(_, _)
SplitText(text, sep) ==
    IF \E i \in DOMAIN text : text[i] = sep
    THEN LET i == CHOOSE i \in DOMAIN text :
                      text[i] = sep /\ \A j \in 1..(i - 1) : text[j] # sep
         IN  <<SubSeq(text, 1, i - 1)>> \o SplitText(SubSeq(text, i + 1, Len(text)), sep)
    ELSE <<text>>

IsNumeral(token) == \E k \in 0..99 : ToString(k) = token

NumeralValue(token) == CHOOSE k \in 0..99 : ToString(k) = token

\* the number written at position i of a text, with the sign before it
SignedAt(text, i) ==
    IF i > 1 /\ text[i - 1] = "-" THEN -NumeralValue(text[i]) ELSE NumeralValue(text[i])

\* the impact a sentence states in its closing parentheses, if it states one
StatedImpact(sentence) ==
    LET n == Len(sentence)
    IN  IF n >= 2 /\ sentence[n] = ")" /\ IsNumeral(sentence[n - 1])
        THEN Some(SignedAt(sentence, n - 1))
        ELSE None

\* C24: the algorithmic reasoning has one sentence for each of the five
\* factors, in the order days on lot, price to market, views, mileage, sales
\* opportunities, followed by the final line, and the signed impact each
\* sentence states is the impact of that factor in the RiskFactors of the
\* record.
C24_ReasoningStatesImpacts ==
    AlgorithmicCall =>
        LET parts == SplitText(last.assessment.reasoning, ". ")
            f == last.factors
        IN  /\ Len(parts) = 6
            /\ parts[1][1] = "Days on lot ("
            /\ StatedImpact(parts[1]) = Some(f.days_on_lot_impact)
            /\ parts[2][1] \in {"Price is ", "Price to market data unavailable"}
            /\ StatedImpact(parts[2]) = Some(f.price_to_market_impact)
            /\ parts[3][1] = "VDP views ("
            /\ StatedImpact(parts[3]) = Some(f.vdp_views_impact)
            /\ parts[4][1] \in {"Mileage (", "New vehicle with 0 miles ("}
            /\ StatedImpact(parts[4]) = Some(f.mileage_impact)
            /\ parts[5][1] = "Sales opportunities ("
            /\ StatedImpact(parts[5]) = Some(f.sales_opportunities_impact)

\* C25: the final line of the algorithmic reasoning reports the baseline 5,
\* the signed total_adjustments and the final_score of the RiskFactors of
\* the record, and the sum it displays is true: baseline + adjustments =
\* final score.
C25_FinalLineAddsUp ==
    AlgorithmicCall =>
        LET parts == SplitText(last.assessment.reasoning, ". ")
            final == parts[Len(parts)]
            f == last.factors
        IN  /\ final[1] = "Overall score = "
            /\ NumeralValue(final[2]) = 5
            /\ NumeralValue(final[2]) = f.baseline_score
            /\ SignedAt(final, 5) = f.total_adjustments
            /\ NumeralValue(final[7]) = f.final_score
            /\ NumeralValue(final[2]) + SignedAt(final, 5) = NumeralValue(final[7])

HasPhrase(text, phrase) == \E i \in DOMAIN text : text[i] = phrase

\* C29: for a priced record the price phrase of the algorithmic summary
\* agrees with the price-to-market impact: "priced below market value"
\* exactly when the impact is -2, "competitively priced" exactly when it is
\* 0, "priced above market value" exactly when it is +2.
C29_PricePhraseAgreesWithImpact ==
    (AlgorithmicCall /\ last.vehicle.current_price > 0) =>
        LET summary == last.assessment.summary
            impact == last.factors.price_to_market_impact
        IN  /\ HasPhrase(summary, "priced below market value") <=> impact = -2
            /\ HasPhrase(summary, "competitively priced") <=> impact = 0
            /\ HasPhrase(summary, "priced above market value") <=> impact = 2

-----------------------------------------------------------------------------
(* Properties of the generator and of the score it is given                *)

\* C27: for every outcome of the model call generate_risk_assessment
\* returns a mapping with the keys summary, risk_score and reasoning, and
\* risk_score is an integer from 1 to 10.
C27_GeneratorMappingComplete ==
    last.op = "generate_risk_assessment" =>
        /\ RequiredKeys \subseteq DOMAIN last.ret
        /\ last.ret["risk_score"].t = "int"
        /\ last.ret["risk_score"].n \in 1..10

\* C28: the risk_score of the assessment assess_risk returns is the
\* final_score calculate_risk_factors computes for the record, whether the
\* generator was not asked, answered or failed.
C28_ScoreIsFinalScore ==
    AssessedCall => last.assessment.risk_score = last.factors.final_score

-----------------------------------------------------------------------------
(* The average mileage for an age                                          *)

\* the mileages of the stored records that are vehicle_age years old in
\* reference_year and have a mileage
MileagesOfAge(vehicle_age, reference_year) ==
    LET keep(v) == reference_year - v.year = vehicle_age /\ v.mileage # 0
        of_age == SelectSeq(get_all_vehicles(vehicles, order), keep)
    IN  [i \in DOMAIN of_age |-> of_age[i].mileage]

\* C26: the average mileage for an age, taken in any reference year, is the
\* arithmetic mean of the mileage of exactly the stored records that are that
\* many years old in the reference year and have a mileage, and 12000 times
\* the age when there is none.
C26_AverageMileageForAge ==
    (phase = "ready" /\ last.op = "calculate_average_mileage_for_age") =>
        LET mileages == MileagesOfAge(last.vehicle_age, last.year)
        IN  IF mileages = <<>>
            THEN last.ret.num = 12000 * last.vehicle_age * last.ret.den
            ELSE last.ret.num * Len(mileages) = SeqSum(mileages) * last.ret.den

====
